---- MODULE Spec2Model ----
(***************************************************************************)
(* A model of NovelDownloader.py: the pagination walker (download_novel,   *)
(* process_page, save_current_chapter), the title, content and next-link   *)
(* heuristics, and main.                                                    *)
(*                                                                          *)
(* Text is modelled as a sequence of one-character strings.  A few symbols  *)
(* stand for a class of characters that the code treats alike:              *)
(*   "("  ")"   ASCII parentheses          "{"  "}"   full-width parentheses *)
(*   "["  "]"   the lenticular brackets    "-"        ASCII dash or em-dash  *)
(*   "|"        the bar or the underscore  " "        a blank                *)
(*   "\n"       a line break               "d"        the ordinal prefix     *)
(*   "y"        a unit glyph (page, chapter, section)                        *)
(*   "H"        the scheme and host of an absolute URL ("http://host")       *)
(* Python's None, True and False are one-element sequences holding a token   *)
(* that is no character, so that every value is a sequence.                  *)
(***************************************************************************)
EXTENDS Integers, Sequences, FiniteSets, TLC

VARIABLES
    pc,               \* position of main / download_novel
    start_url,        \* args.url
    timeout,          \* args.timeout
    current_url,      \* download_novel's local current_url
    visited_urls,     \* self.visited_urls
    current_chapter,  \* self.current_chapter
    chapter_content,  \* self.chapter_content
    chapter_count,    \* self.chapter_count
    file,             \* the content of the output file
    fetched,          \* history: the URLs handed to session.get, in order
    log,              \* history: the lines printed, in order
    pages,            \* history: the (title, content) of every page appended
    written,          \* history: the chapter blocks written to the file
    last,             \* history: the outcome of the latest session.get
    marks,            \* history: snapshots taken at a revisit and an interrupt
    probe             \* the argument and result of a heuristic called alone

vars == <<pc, start_url, timeout, current_url, visited_urls, current_chapter,
          chapter_content, chapter_count, file, fetched, log, pages,
          written, last, marks, probe>>

----------------------------------------------------------------------------
(* Bounds of the model. *)

MaxFetch == 3        \* session.get calls in one run
MaxTitleLen == 3     \* characters of a raw title handed to a heuristic alone
MaxAnchors == 2      \* anchors of a page handed to extract_next_page alone
MaxSaveCalls == 2    \* extra direct calls of save_current_chapter
MaxUrlParts == 3     \* parts of a URL handed to extract_next_page alone
MaxRawLen == 5       \* characters of a string handed to clean_chapter_title alone

----------------------------------------------------------------------------
(* Python values. *)

PyNone == <<"<None>">>
PyTrue == <<"<True>">>
PyFalse == <<"<False>">>

Truthy(v) == v \notin {PyNone, PyFalse, <<>>}

NL == "\n"

Min(S) == CHOOSE x \in S : \A y \in S : x <= y

RECURSIVE Concat(_)
Concat(ss) == IF ss = <<>> THEN <<>> ELSE Head(ss) \o Concat(Tail(ss))

RECURSIVE SkipWhile(_, _, _)
SkipWhile(s, i, set) ==
    IF i <= Len(s) /\ s[i] \in set THEN SkipWhile(s, i + 1, set) ELSE i

----------------------------------------------------------------------------
(* clean_chapter_title, lines 19-26. *)

OpenBrackets == {"(", "{", "["}
CloseOf(c) == CASE c = "(" -> ")" [] c = "{" -> "}" [] c = "[" -> "]"
Dashes == {"-"}
Spaces == {" ", NL}
Digits == {"0", "1", "2", "3", "4", "5", "6", "7", "8", "9"}
Units == {"y"}
Ordinal == "d"

\* The end of the non-greedy match of \(.*?\) (or its two siblings) that
\* starts at s[1], 0 if there is none; "." does not match a line break.
BracketEnd(s) ==
    LET ends == { j \in 2..Len(s) :
                    /\ s[j] = CloseOf(s[1])
                    /\ \A k \in 2..(j - 1) : s[k] # NL }
    IN  IF s # <<>> /\ s[1] \in OpenBrackets /\ ends # {} THEN Min(ends) ELSE 0

\* re.sub(r"\(.*?\)|（.*?）|【.*?】", "", title): one pass, left to right.
RECURSIVE RemoveBrackets(_)
RemoveBrackets(s) ==
    IF s = <<>> THEN <<>>
    ELSE IF BracketEnd(s) # 0
         THEN RemoveBrackets(SubSeq(s, BracketEnd(s) + 1, Len(s)))
         ELSE <<Head(s)>> \o RemoveBrackets(Tail(s))

\* The end of the match of [-—]\s*第?[0-9]+[页章節]? that starts at s[1], 0 if
\* there is none.
PageMarkEnd(s) ==
    LET a == SkipWhile(s, 2, Spaces)
        b == IF a <= Len(s) /\ s[a] = Ordinal THEN a + 1 ELSE a
        c == SkipWhile(s, b, Digits)
        e == IF c <= Len(s) /\ s[c] \in Units THEN c ELSE c - 1
    IN  IF s # <<>> /\ s[1] \in Dashes /\ c > b THEN e ELSE 0

\* re.sub(r"[-—]\s*第?[0-9]+[页章節]?", "", title): one pass, left to right.
RECURSIVE RemovePageMarks(_)
RemovePageMarks(s) ==
    IF s = <<>> THEN <<>>
    ELSE IF PageMarkEnd(s) # 0
         THEN RemovePageMarks(SubSeq(s, PageMarkEnd(s) + 1, Len(s)))
         ELSE <<Head(s)>> \o RemovePageMarks(Tail(s))

\* str.strip()
RECURSIVE Strip(_)
Strip(s) ==
    IF s = <<>> THEN <<>>
    ELSE IF s[1] \in Spaces THEN Strip(Tail(s))
    ELSE IF s[Len(s)] \in Spaces THEN Strip(SubSeq(s, 1, Len(s) - 1))
    ELSE s

clean_chapter_title(title) == Strip(RemovePageMarks(RemoveBrackets(title)))

----------------------------------------------------------------------------
(* extract_chapter_title, lines 28-43.  soup.h1 and soup.title are the      *)
(* element's get_text(strip=True), or PyNone when the page has no such      *)
(* element.                                                                 *)

Separators == {"-", "|"}
Untitled == <<"untitled">>

\* re.split(r"[-|_|—]", title)[0]
FirstSegment(s) == SubSeq(s, 1, SkipWhile(s, 1, {s[i] : i \in 1..Len(s)} \ Separators) - 1)

extract_chapter_title(soup) ==
    IF soup.h1 # PyNone /\ soup.h1 # <<>>
    THEN clean_chapter_title(soup.h1)
    ELSE IF soup.title # PyNone
         THEN clean_chapter_title(Strip(FirstSegment(soup.title)))
         ELSE Untitled

----------------------------------------------------------------------------
(* extract_main_content, lines 45-66.  soup.sel[i] is what soup.find gives  *)
(* for the i-th selector: found, the length of the element's                *)
(* get_text(strip=True), and the text that get_text("\n", strip=True) gives *)
(* once the script, style, ins and iframe descendants are removed.  A       *)
(* letter of that text stands for a run of characters.                      *)

MinContentLen == 100
NumSelectors == 7

Qualifies(e) == e.found /\ e.rawLen > MinContentLen

\* extract_main_content with the threshold of line 60 met at 100 characters
extract_main_content_from_100(soup) ==
    LET hits == { i \in 1..Len(soup.sel) :
                    soup.sel[i].found /\ soup.sel[i].rawLen >= MinContentLen }
    IN  IF hits = {} THEN PyNone ELSE soup.sel[Min(hits)].text

extract_main_content(soup) ==
    LET hits == { i \in 1..Len(soup.sel) : Qualifies(soup.sel[i]) }
    IN  IF hits = {} THEN PyNone ELSE soup.sel[Min(hits)].text

\* len() of the string that extract_main_content returns at line 64
returned_length(soup) ==
    LET hits == { i \in 1..Len(soup.sel) : Qualifies(soup.sel[i]) }
    IN  soup.sel[Min(hits)].textLen

----------------------------------------------------------------------------
(* extract_next_page, lines 68-93.  An anchor is its .string (a token for   *)
(* the whole text), its set of classes and its href (PyNone when it has no  *)
(* href attribute).                                                         *)

next_keywords == <<"next_page", "next_chapter", "next_section",
                   "next_page_trad", "Next", ">", "raquo">>
next_classes == <<"next", "next-page", "pagination-next">>

\* re.IGNORECASE on the anchor text
Fold(t) == IF t \in {"NEXT", "next"} THEN "Next" ELSE t

\* re.compile(fr"^{keyword}$", flags=re.IGNORECASE) against the anchor's string
KeywordMatch(keyword, text) == Fold(text) = Fold(keyword)

\* soup.find("a", string=...): the first anchor in document order, 0 if none
FindByText(anchors, keyword) ==
    LET hits == { i \in 1..Len(anchors) : KeywordMatch(keyword, anchors[i].text) }
    IN  IF hits = {} THEN 0 ELSE Min(hits)

\* soup.find("a", class_=...): the first anchor in document order, 0 if none
FindByClass(anchors, class_name) ==
    LET hits == { i \in 1..Len(anchors) : class_name \in anchors[i].classes }
    IN  IF hits = {} THEN 0 ELSE Min(hits)

\* next_link and next_link.get("href")
HasHref(anchors, i) == i # 0 /\ Truthy(anchors[i].href)

\* lines 72-75
KeywordHref(anchors) ==
    LET ks == { k \in 1..Len(next_keywords) :
                  HasHref(anchors, FindByText(anchors, next_keywords[k])) }
    IN  IF ks = {} THEN PyNone
        ELSE anchors[FindByText(anchors, next_keywords[Min(ks)])].href

\* lines 78-81
ClassHref(anchors) ==
    LET cs == { c \in 1..Len(next_classes) :
                  HasHref(anchors, FindByClass(anchors, next_classes[c])) }
    IN  IF cs = {} THEN PyNone
        ELSE anchors[FindByClass(anchors, next_classes[Min(cs)])].href

\* str.lower() on the letters a URL of the model can hold
Lower(s) ==
    [i \in 1..Len(s) |->
        CASE s[i] = "P" -> "p" [] s[i] = "A" -> "a" [] s[i] = "G" -> "g"
          [] s[i] = "E" -> "e" [] OTHER -> s[i]]

StartsWith(s, pat) == Len(pat) <= Len(s) /\ SubSeq(s, 1, Len(pat)) = pat

Contains(s, pat) ==
    \E i \in 1..Len(s) : StartsWith(SubSeq(s, i, Len(s)), pat)

\* The length of group 1 of (page|p)=(\d+), re.IGNORECASE, matched at s[1];
\* 0 if the pattern does not match there.
KeyLenAt(s) ==
    LET ok(n) == /\ Len(s) >= n + 2
                 /\ s[n + 1] = "="
                 /\ s[n + 2] \in Digits
    IN  IF StartsWith(Lower(s), <<"p", "a", "g", "e">>) /\ ok(4) THEN 4
        ELSE IF StartsWith(Lower(s), <<"p">>) /\ ok(1) THEN 1
        ELSE 0

\* re.search: the leftmost position where the pattern matches, 0 if none
SearchPageParam(url) ==
    LET hits == { i \in 1..Len(url) : KeyLenAt(SubSeq(url, i, Len(url))) # 0 }
    IN  IF hits = {} THEN 0 ELSE Min(hits)

DigitVal(c) ==
    CASE c = "0" -> 0 [] c = "1" -> 1 [] c = "2" -> 2 [] c = "3" -> 3
      [] c = "4" -> 4 [] c = "5" -> 5 [] c = "6" -> 6 [] c = "7" -> 7
      [] c = "8" -> 8 [] c = "9" -> 9

DigitChar(n) == <<"0", "1", "2", "3", "4", "5", "6", "7", "8", "9">>[n + 1]

\* int(match.group(2))
RECURSIVE DecVal(_)
DecVal(ds) ==
    IF ds = <<>> THEN 0
    ELSE 10 * DecVal(SubSeq(ds, 1, Len(ds) - 1)) + DigitVal(ds[Len(ds)])

\* the f-string's rendering of next_num
RECURSIVE DecStr(_)
DecStr(n) ==
    IF n < 10 THEN <<DigitChar(n)>>
    ELSE DecStr(n \div 10) \o <<DigitChar(n % 10)>>

\* str.replace(old, new): every non-overlapping occurrence, left to right
RECURSIVE ReplaceAll(_, _, _)
ReplaceAll(s, old, new) ==
    IF s = <<>> THEN <<>>
    ELSE IF StartsWith(s, old)
         THEN new \o ReplaceAll(SubSeq(s, Len(old) + 1, Len(s)), old, new)
         ELSE <<Head(s)>> \o ReplaceAll(Tail(s), old, new)

\* lines 84-91
PatternNext(url) ==
    LET i == SearchPageParam(url)
        rest == SubSeq(url, i, Len(url))
        n == KeyLenAt(rest)
        key == SubSeq(rest, 1, n)
        digitsEnd == SkipWhile(rest, n + 2, Digits) - 1
        num == SubSeq(rest, n + 2, digitsEnd)
    IN  IF Contains(Lower(url), <<"p", "a", "g", "e">>) /\ i # 0
        THEN ReplaceAll(url,
                        key \o <<"=">> \o num,
                        key \o <<"=">> \o DecStr(DecVal(num) + 1))
        ELSE PyNone

\* extract_next_page with the class names tried before the keywords
extract_next_page_class_first(soup, url) ==
    IF ClassHref(soup.anchors) # PyNone THEN ClassHref(soup.anchors)
    ELSE IF KeywordHref(soup.anchors) # PyNone THEN KeywordHref(soup.anchors)
    ELSE PatternNext(url)

extract_next_page(soup, url) ==
    IF KeywordHref(soup.anchors) # PyNone THEN KeywordHref(soup.anchors)
    ELSE IF ClassHref(soup.anchors) # PyNone THEN ClassHref(soup.anchors)
    ELSE PatternNext(url)

----------------------------------------------------------------------------
(* process_page's use of its collaborators. *)

\* urljoin(url, next_page), line 131, for an href that is a path from the
\* root ("/..."): the scheme and host of url, then the href.
UrlJoin(url, href) == <<"H">> \o href

\* lines 130-131
ResolveNext(url, next_page) ==
    IF Truthy(next_page) /\ Head(next_page) # "H"
    THEN UrlJoin(url, next_page)
    ELSE next_page

\* process_page without its check of visited_urls
NeverVisited(url, visited) == FALSE

\* line 97
AlreadyVisited(url, visited) == url \in visited

\* process_page without line 100
ForgetVisited(url, visited) == visited

\* line 100
MarkVisited(url, visited) == visited \cup {url}

\* The pages that the walk is fed: the title heuristics' input, the first
\* selector's element and at most one anchor.
\* textLen is the number of characters of text, the string that line 64
\* returns: the element's text without its script, style, ins and iframe
\* descendants, with a line break between the remaining pieces.
NoElement == [found |-> FALSE, rawLen |-> 0, text |-> <<>>, textLen |-> 0]
Element(n, t) == [found |-> TRUE, rawLen |-> n, text |-> t, textLen |-> n]
Cleaned(n, t, m) == [found |-> TRUE, rawLen |-> n, text |-> t, textLen |-> m]
Selected(e) == [i \in 1..NumSelectors |-> IF i = 1 THEN e ELSE NoElement]
Anchor(t, c, h) == [text |-> t, classes |-> c, href |-> h]

U0 == <<"H", "/", "x">>
UZ == <<"H", "/", "z">>
UP == <<"H", "/", "p", "a", "g", "e", "=", "9">>
StartUrls == {U0, UP}
WalkHrefs == {<<"/", "x">>, UZ}
WalkTitles == {<<"a">>, <<"b", "-", "2">>, <<"(", "1", ")">>}
WalkElements == {Element(MinContentLen + 1, <<"A">>),
                 Element(MinContentLen + 1, <<"B">>),
                 Element(MinContentLen, <<"A">>)}
WalkAnchors == {<<>>} \cup {<<Anchor("next_page", {}, h)>> : h \in WalkHrefs}
WalkSoups ==
    [h1 : WalkTitles, title : {PyNone}, sel : {Selected(e) : e \in WalkElements},
     anchors : WalkAnchors]

Statuses == {200, 404}

\* parse_arguments, lines 185-190: --timeout, an int, 10 when not given
DefaultTimeout == 10
TimeoutArgs == {DefaultTimeout, 30}

\* the timeout of session.get, line 106
RequestTimeout == 10

\* The pages of the site: to a request for any other URL the server answers
\* with an error status (and a body of its own), or the request fails.
SiteUrls == StartUrls \cup {UZ}
StatusesAt(url) == IF url \in SiteUrls THEN Statuses ELSE Statuses \ (200..299)

\* What session.get(url, timeout=10) can do, line 106: raise (a network
\* failure, a timeout, or no URL at all when handed True), or return a
\* response, whatever its status code.
GetOutcomes(url) ==
    IF url = PyTrue
    THEN {[kind |-> "exception", status |-> 0, soup |-> PyNone]}
    ELSE {[kind |-> "exception", status |-> 0, soup |-> PyNone]}
         \cup [kind : {"response"}, status : StatusesAt(url), soup : WalkSoups]

----------------------------------------------------------------------------
(* save_current_chapter, lines 139-150. *)

\* line 141
NothingToSave(chapter, content) == ~Truthy(chapter) \/ content = <<>>

\* lines 146-148
ChapterBlock(chapter, content) == chapter \o <<NL>> \o Concat(content) \o <<NL>>

\* save_current_chapter without its guard of line 141
save_without_guard(f, chapter, content) == f \o ChapterBlock(chapter, content)

\* save_current_chapter opening the file with "w" instead of "a"
save_overwriting(f, chapter, content) ==
    IF NothingToSave(chapter, content) THEN f
    ELSE ChapterBlock(chapter, content)

\* the file after save_current_chapter(output_file)
save_current_chapter(f, chapter, content) ==
    IF NothingToSave(chapter, content) THEN f
    ELSE f \o ChapterBlock(chapter, content)

\* history of the blocks written, and of the lines printed
Saved(w, n, chapter, content) ==
    IF NothingToSave(chapter, content) THEN w
    ELSE Append(w, [n |-> n, title |-> chapter, body |-> Concat(content)])

SavedLog(l, chapter, content) ==
    IF NothingToSave(chapter, content) THEN l
    ELSE Append(l, [msg |-> "saved", arg |-> chapter])

----------------------------------------------------------------------------
(* The state machine. *)

NoMarks == [revisit |-> PyNone, npages |-> 0, interrupted |-> FALSE,
            open_chapter |-> PyNone, open_content |-> <<>>, saves |-> 0]
NoProbe == [op |-> "none"]

Init ==
    /\ pc = "download_novel"
    /\ start_url \in StartUrls
    /\ timeout \in TimeoutArgs
    /\ current_url = PyNone
    /\ visited_urls = {}
    /\ current_chapter = PyNone
    /\ chapter_content = <<>>
    /\ chapter_count = 0
    /\ file \in {<<>>, <<"o", NL>>}
    /\ fetched = <<>>
    /\ log = <<>>
    /\ pages = <<>>
    /\ written = <<>>
    /\ last = [kind |-> "none", status |-> 0, timeout |-> 0]
    /\ marks = NoMarks
    /\ probe = NoProbe

object == <<visited_urls, current_chapter, chapter_content, chapter_count>>
history == <<fetched, pages, written, last, marks>>

\* download_novel, lines 155-158: truncate the file, start at start_url
Truncate ==
    /\ pc = "download_novel"
    /\ file' = <<>>
    /\ current_url' = start_url
    /\ pc' = "loop"
    /\ UNCHANGED <<start_url, timeout, object, log, history, probe>>

\* download_novel, line 155: open() raises, main catches it at line 211
TruncateFails ==
    /\ pc = "download_novel"
    /\ pc' = "error"
    /\ log' = Append(log, [msg |-> "error", arg |-> PyNone])
    /\ UNCHANGED <<start_url, timeout, current_url, file, object, history, probe>>

\* process_page, lines 97-98: the URL was visited, return True
Revisit ==
    /\ pc = "loop"
    /\ Truthy(current_url)
    /\ AlreadyVisited(current_url, visited_urls)
    /\ current_url' = PyTrue
    /\ marks' = [marks EXCEPT !.revisit = current_url, !.npages = Len(pages)]
    /\ UNCHANGED <<pc, start_url, timeout, object, file, log, fetched, pages, written,
                   last, probe>>

\* process_page, line 100: mark the URL visited
EnterPage ==
    /\ pc = "loop"
    /\ Truthy(current_url)
    /\ ~AlreadyVisited(current_url, visited_urls)
    /\ Len(fetched) < MaxFetch
    /\ visited_urls' = MarkVisited(current_url, visited_urls)
    /\ pc' = "fetch"
    /\ UNCHANGED <<start_url, timeout, current_url, current_chapter, chapter_content,
                   chapter_count, file, log, history, probe>>

\* process_page, lines 135-137: an exception of the request
FetchRaises(out) ==
    /\ out.kind = "exception"
    /\ log' = Append(log, [msg |-> "failed", arg |-> current_url])
    /\ current_url' = PyFalse
    /\ UNCHANGED <<current_chapter, chapter_content, chapter_count, file,
                   pages, written>>

\* process_page, lines 114-116: no content
NoContent(out) ==
    /\ out.kind = "response"
    /\ ~Truthy(extract_main_content(out.soup))
    /\ log' = Append(log, [msg |-> "no_content", arg |-> current_url])
    /\ current_url' = PyFalse
    /\ UNCHANGED <<current_chapter, chapter_content, chapter_count, file,
                   pages, written>>

\* line 119
IsNewChapter(chapter_title, chapter) == chapter_title # chapter

\* process_page, lines 118-133: the chapter boundary, the fragment, the link
TakePage(out) ==
    LET chapter_title == extract_chapter_title(out.soup)
        content == extract_main_content(out.soup)
        new == IsNewChapter(chapter_title, current_chapter)
        next_page == extract_next_page(out.soup, current_url)
    IN  /\ out.kind = "response"
        /\ Truthy(content)
        /\ file' = IF new
                   THEN save_current_chapter(file, current_chapter, chapter_content)
                   ELSE file
        /\ written' = IF new
                      THEN Saved(written, chapter_count, current_chapter,
                                 chapter_content)
                      ELSE written
        /\ log' = IF new THEN SavedLog(log, current_chapter, chapter_content)
                  ELSE log
        /\ current_chapter' = IF new THEN chapter_title ELSE current_chapter
        /\ chapter_count' = IF new THEN chapter_count + 1 ELSE chapter_count
        /\ chapter_content' =
               Append(IF new THEN <<>> ELSE chapter_content, content)
        /\ pages' = Append(pages, [title |-> chapter_title, content |-> content,
                                   opened |-> new])
        /\ current_url' = ResolveNext(current_url, next_page)

\* process_page, lines 103-137: the request and everything after it
FetchPage ==
    /\ pc = "fetch"
    /\ \E out \in GetOutcomes(current_url) :
          /\ fetched' = Append(fetched, current_url)
          /\ last' = [kind |-> out.kind, status |-> out.status,
                      timeout |-> RequestTimeout]
          /\ FetchRaises(out) \/ NoContent(out) \/ TakePage(out)
    /\ pc' = "loop"
    /\ UNCHANGED <<start_url, timeout, visited_urls, marks, probe>>

\* download_novel, lines 163-164: the last chapter, the completion message
FinalSave ==
    /\ pc = "loop"
    /\ ~Truthy(current_url)
    /\ file' = save_current_chapter(file, current_chapter, chapter_content)
    /\ written' = Saved(written, chapter_count, current_chapter, chapter_content)
    /\ log' = Append(SavedLog(log, current_chapter, chapter_content),
                     [msg |-> "done", arg |-> <<chapter_count>>])
    /\ pc' = "returned"
    /\ UNCHANGED <<start_url, timeout, current_url, object, fetched, pages, last, marks,
                   probe>>

\* A KeyboardInterrupt during the walk; main catches it at lines 209-210
Interrupt ==
    /\ pc \in {"loop", "fetch"}
    /\ pc' = "interrupted"
    /\ log' = Append(log, [msg |-> "interrupt", arg |-> PyNone])
    /\ marks' = [marks EXCEPT !.interrupted = TRUE,
                              !.open_chapter = current_chapter,
                              !.open_content = chapter_content]
    /\ UNCHANGED <<start_url, timeout, current_url, object, file, fetched, pages,
                   written, last, probe>>

\* download_novel, line 163: open() raises in save_current_chapter; main
\* catches it at line 211
FinalSaveFails ==
    /\ pc = "loop"
    /\ ~Truthy(current_url)
    /\ ~NothingToSave(current_chapter, chapter_content)
    /\ pc' = "error"
    /\ log' = Append(log, [msg |-> "error", arg |-> PyNone])
    /\ UNCHANGED <<start_url, timeout, current_url, file, object, history, probe>>

\* main whose finally clause runs only when no Exception is on its way
FinallyUnlessError(p) == p \in {"returned", "interrupted"}

\* main, lines 203-213: download_novel returned, or raised KeyboardInterrupt
\* (line 209) or an Exception (line 211); the finally clause follows each
ReachesFinally(p) == p \in {"returned", "interrupted", "error"}

\* main, lines 213-214: the elapsed time
Finish ==
    /\ ReachesFinally(pc)
    /\ pc' = "exited"
    /\ log' = Append(log, [msg |-> "elapsed", arg |-> PyNone])
    /\ UNCHANGED <<start_url, timeout, current_url, object, file, history, probe>>

Next ==
    \/ Truncate
    \/ TruncateFails
    \/ Revisit
    \/ EnterPage
    \/ FetchPage
    \/ FinalSave
    \/ FinalSaveFails
    \/ Interrupt
    \/ Finish

Spec == Init /\ [][Next]_vars

----------------------------------------------------------------------------
(* Vocabulary of the properties. *)

NoDuplicates(q) == \A i, j \in 1..Len(q) : i # j => q[i] # q[j]

Occurrences(q, x) == Cardinality({ i \in 1..Len(q) : q[i] = x })

Blocks(w) == [i \in 1..Len(w) |-> [title |-> w[i].title, body |-> w[i].body]]

AllButLast(q) == IF q = <<>> THEN <<>> ELSE SubSeq(q, 1, Len(q) - 1)

\* The chapters that process_page opened, each with the contents of the
\* pages appended to it, in order.
RECURSIVE OpenedChapters(_)
OpenedChapters(ps) ==
    IF ps = <<>> THEN <<>>
    ELSE LET p == ps[Len(ps)]
             before == OpenedChapters(AllButLast(ps))
         IN  IF p.opened \/ before = <<>>
             THEN Append(before, [title |-> p.title, body |-> p.content])
             ELSE [before EXCEPT ![Len(before)].body = @ \o p.content]

\* One chapter per maximal run of consecutive pages with equal title.
RECURSIVE TitleRuns(_)
TitleRuns(ps) ==
    IF ps = <<>> THEN <<>>
    ELSE LET p == ps[Len(ps)]
             before == TitleRuns(AllButLast(ps))
         IN  IF Len(ps) = 1 \/ ps[Len(ps) - 1].title # p.title
             THEN Append(before, [title |-> p.title, body |-> p.content])
             ELSE [before EXCEPT ![Len(before)].body = @ \o p.content]

\* The text of a sequence of chapters: title, line break, body, line break.
RECURSIVE Rendered(_)
Rendered(chs) ==
    IF chs = <<>> THEN <<>>
    ELSE Head(chs).title \o <<NL>> \o Head(chs).body \o <<NL>>
         \o Rendered(Tail(chs))

Logged(msg) == \E i \in 1..Len(log) : log[i].msg = msg

NewLines(l, l2) == { l2[i] : i \in (Len(l) + 1)..Len(l2) }

BadFetch(l) ==
    \/ l.kind = "exception"
    \/ l.kind = "response" /\ l.status \notin 200..299

----------------------------------------------------------------------------
(* C1: every chapter that process_page opens is written to the file exactly *)
(* once: while the walk runs, the blocks written are the opened chapters    *)
(* but the one still open, and when download_novel has returned they are    *)
(* all the opened chapters, each with its own pages' contents.              *)
C1_EachChapterOnce ==
    /\ pc \in {"loop", "fetch"} =>
           Blocks(written) = AllButLast(OpenedChapters(pages))
    /\ pc = "returned" => Blocks(written) = OpenedChapters(pages)

(* C2: when download_novel has returned, the file is the concatenation, in  *)
(* fetch order, of one block per maximal run of consecutive pages with      *)
(* equal title: the title, a line break, the run's contents, a line break.  *)
C2_FileIsTitleRuns ==
    pc = "returned" => file = Rendered(TitleRuns(pages))

(* C3: when an interrupt arrives while a chapter is open with at least one  *)
(* fragment, that chapter's block has been written when the process exits.  *)
C3_InterruptFlushes ==
    (/\ pc = "exited"
     /\ marks.interrupted
     /\ marks.open_chapter # PyNone
     /\ marks.open_content # <<>>) =>
        /\ written # <<>>
        /\ written[Len(written)] =
               [n |-> chapter_count, title |-> marks.open_chapter,
                body |-> Concat(marks.open_content)]

(* C4: no URL is fetched twice; once a next link led to a visited URL, that *)
(* URL has been fetched once, no further page is taken, and no chapter has  *)
(* been written to the file twice.                                          *)
C4_CycleGuard ==
    /\ NoDuplicates(fetched)
    /\ marks.revisit # PyNone =>
           /\ Occurrences(fetched, marks.revisit) = 1
           /\ Len(pages) = marks.npages
           /\ NoDuplicates([i \in 1..Len(written) |-> written[i].n])
           /\ file = Rendered(Blocks(written))

C4_Witness ==
    /\ marks.revisit # PyNone
    /\ pc = "returned"
    /\ Len(written) >= 2

(* C5: once process_page found its URL visited, nothing more is fetched,    *)
(* process_page is not entered again, no failure is logged and visited_urls *)
(* gains no element.                                                        *)
C5_RevisitIsSilentEnd ==
    [][marks.revisit # PyNone =>
           /\ fetched' = fetched
           /\ visited_urls' = visited_urls
           /\ pc' # "fetch"
           /\ \A e \in NewLines(log, log') : e.msg # "failed"]_vars

(* C6: a fetch that ends in an exception or a non-2xx response leaves the   *)
(* chapter title, the fragments and the counter as they were, ends the      *)
(* walk, and is followed by no other fetch.                                 *)
C6_FailedFetchEndsWalk ==
    [][/\ (Len(fetched') = Len(fetched) + 1 /\ BadFetch(last')) =>
              /\ current_chapter' = current_chapter
              /\ chapter_content' = chapter_content
              /\ chapter_count' = chapter_count
              /\ ~Truthy(current_url')
       /\ BadFetch(last) => fetched' = fetched]_vars

(* C7: when content extraction fails, process_page changes neither the      *)
(* chapter title, the fragments, the counter nor the file, the walk ends,   *)
(* and the final flush writes the fragments accumulated before.             *)
C7_NoContentKeepsChapter ==
    [][/\ [msg |-> "no_content", arg |-> current_url] \in NewLines(log, log') =>
              /\ current_chapter' = current_chapter
              /\ chapter_content' = chapter_content
              /\ chapter_count' = chapter_count
              /\ file' = file
              /\ ~Truthy(current_url')
       /\ (Logged("no_content") /\ pc' = "returned" /\ chapter_content # <<>>) =>
              /\ file' = file \o ChapterBlock(current_chapter, chapter_content)
              /\ file' # file]_vars

----------------------------------------------------------------------------
(* save_current_chapter called again by the owner of the object, after      *)
(* download_novel has returned.                                             *)

SaveAgain ==
    /\ pc = "returned"
    /\ marks.saves < MaxSaveCalls
    /\ file' = save_current_chapter(file, current_chapter, chapter_content)
    /\ written' = Saved(written, chapter_count, current_chapter, chapter_content)
    /\ log' = SavedLog(log, current_chapter, chapter_content)
    /\ marks' = [marks EXCEPT !.saves = @ + 1]
    /\ UNCHANGED <<pc, start_url, timeout, current_url, object, fetched, pages, last,
                   probe>>

NextSave == Next \/ SaveAgain

SpecSave == Init /\ [][NextSave]_vars

(* C8: a call of save_current_chapter that follows another one, with no     *)
(* fragment appended in between, leaves the file as it was.                 *)
C8_SaveIdempotent ==
    [][marks'.saves = marks.saves + 1 => file' = file]_vars

(* C8 as amended: such a call leaves the file as it was only when there is  *)
(* no title or no fragment; otherwise it appends once more the block that   *)
(* the call before it wrote.                                                *)
C8_SaveRepeatsBlock ==
    [][marks'.saves = marks.saves + 1 =>
           IF Truthy(current_chapter) /\ chapter_content # <<>>
           THEN /\ written # <<>>
                /\ file' = file \o Rendered(<<Blocks(written)[Len(written)]>>)
                /\ file' # file
           ELSE file' = file]_vars

C8_Witness ==
    /\ marks.saves = 1
    /\ Len(written) = 2
    /\ Blocks(written)[1] = Blocks(written)[2]
    /\ file = Rendered(Blocks(written))

----------------------------------------------------------------------------
(* The heuristics called alone, on every input within the bounds. *)

Pending == <<"<pending>">>

RECURSIVE StringsOver(_, _)
StringsOver(chars, n) ==
    IF n = 0 THEN {<<>>}
    ELSE LET shorter == StringsOver(chars, n - 1)
         IN  shorter \cup { Append(t, c) : t \in shorter, c \in chars }

Idle ==
    /\ pc = "download_novel"
    /\ start_url = U0
    /\ timeout = DefaultTimeout
    /\ current_url = PyNone
    /\ visited_urls = {}
    /\ current_chapter = PyNone
    /\ chapter_content = <<>>
    /\ chapter_count = 0
    /\ file = <<>>
    /\ fetched = <<>>
    /\ log = <<>>
    /\ pages = <<>>
    /\ written = <<>>
    /\ last = [kind |-> "none", status |-> 0, timeout |-> 0]
    /\ marks = NoMarks

walk == <<pc, start_url, timeout, current_url, visited_urls, current_chapter,
          chapter_content, chapter_count, file, fetched, log, pages,
          written, last, marks>>

\* get_text(strip=True) of an element: no blank at either end
TitleChars == {"(", ")", "[", "]", "-", "|", " ", NL, "d", "1", "y", "a"}
ElementTexts == { t \in StringsOver(TitleChars, MaxTitleLen) : Strip(t) = t }
FewTexts == {PyNone, <<>>, <<"a">>, <<"(", "a", ")">>, <<"a", "|", "a">>}

TitleSoups ==
    [h1 : ElementTexts \cup {PyNone}, title : FewTexts, sel : {<<>>},
     anchors : {<<>>}]
    \cup
    [h1 : {PyNone, <<>>}, title : ElementTexts, sel : {<<>>}, anchors : {<<>>}]

InitTitle ==
    /\ Idle
    /\ probe \in [op : {"extract_chapter_title"}, soup : TitleSoups,
                  url : {PyNone}, out : {Pending}]

ApplyTitle ==
    /\ probe.op = "extract_chapter_title"
    /\ probe.out = Pending
    /\ probe' = [probe EXCEPT !.out = extract_chapter_title(probe.soup)]
    /\ UNCHANGED walk

SpecTitle == InitTitle /\ [][ApplyTitle]_vars

(* C9: extract_chapter_title returns the first non-empty result of its      *)
(* heuristics: the cleaned h1 text, else the cleaned first segment of the   *)
(* document title, else the untitled-chapter sentinel; never the empty      *)
(* string.                                                                  *)
C9_FirstNonEmptyTitle ==
    (probe.op = "extract_chapter_title" /\ probe.out # Pending) =>
        LET h1 == probe.soup.h1
            t == probe.soup.title
            first == IF h1 = PyNone THEN <<>> ELSE clean_chapter_title(h1)
            second == IF t = PyNone THEN <<>>
                      ELSE clean_chapter_title(Strip(FirstSegment(t)))
        IN  /\ probe.out # <<>>
            /\ probe.out = IF first # <<>> THEN first
                           ELSE IF second # <<>> THEN second
                           ELSE Untitled

----------------------------------------------------------------------------

ProbeAnchors ==
    [text : {"next_page", "next_chapter", "other"},
     classes : {{}, {"next"}},
     href : {PyNone, <<"/", "1">>, <<"/", "2">>}]
    \cup {Anchor("NEXT", {}, <<"/", "3">>),
          Anchor("next_page", {}, <<>>),
          Anchor("other", {"btn", "next-page"}, <<"/", "4">>),
          Anchor("other", {"next-page"}, <<>>)}

RECURSIVE SeqsOver(_, _)
SeqsOver(S, n) ==
    IF n = 0 THEN {<<>>}
    ELSE LET shorter == SeqsOver(S, n - 1)
         IN  shorter \cup { Append(q, x) : q \in shorter, x \in S }

ProbeUrls == {U0, UP, <<"H", "/", "p", "=", "1">>}

InitNextPage ==
    /\ Idle
    /\ probe \in [op : {"extract_next_page"},
                  soup : [h1 : {PyNone}, title : {PyNone}, sel : {<<>>},
                          anchors : SeqsOver(ProbeAnchors, MaxAnchors)],
                  url : ProbeUrls, out : {Pending}]

ApplyNextPage ==
    /\ probe.op = "extract_next_page"
    /\ probe.out = Pending
    /\ probe' = [probe EXCEPT !.out = extract_next_page(probe.soup, probe.url)]
    /\ UNCHANGED walk

SpecNextPage == InitNextPage /\ [][ApplyNextPage]_vars

IsKeyword(text) == \E k \in 1..Len(next_keywords) : KeywordMatch(next_keywords[k], text)
IsNextClass(classes) == \E c \in 1..Len(next_classes) : next_classes[c] \in classes

(* C10: extract_next_page returns the href of a keyword-text anchor         *)
(* whenever one with an href exists; a class-matched anchor's href only     *)
(* when no keyword-text anchor has an href; the URL-pattern increment only  *)
(* when neither kind of anchor has one; otherwise absent.                   *)
C10_StrictPriority ==
    (probe.op = "extract_next_page" /\ probe.out # Pending) =>
        LET a == probe.soup.anchors
            byText == { i \in 1..Len(a) : IsKeyword(a[i].text) /\ Truthy(a[i].href) }
            byClass == { i \in 1..Len(a) : IsNextClass(a[i].classes) /\ Truthy(a[i].href) }
        IN  IF byText # {} THEN probe.out \in { a[i].href : i \in byText }
            ELSE IF byClass # {} THEN probe.out \in { a[i].href : i \in byClass }
            ELSE probe.out = PatternNext(probe.url)

(* C10 as amended: for each keyword, and then for each class name, only the *)
(* first anchor in document order that matches it is looked at.  The result *)
(* is the href of that anchor for the earliest keyword for which it has a   *)
(* non-empty href; failing that, the same over the class names; failing     *)
(* that, the URL-pattern increment, or absent.                              *)
C10_FirstAnchorPriority ==
    (probe.op = "extract_next_page" /\ probe.out # Pending) =>
        LET a == probe.soup.anchors
            leadText(k) == { i \in 1..Len(a) :
                               /\ KeywordMatch(next_keywords[k], a[i].text)
                               /\ \A j \in 1..(i - 1) :
                                      ~KeywordMatch(next_keywords[k], a[j].text)
                               /\ Truthy(a[i].href) }
            leadClass(c) == { i \in 1..Len(a) :
                                /\ next_classes[c] \in a[i].classes
                                /\ \A j \in 1..(i - 1) :
                                       next_classes[c] \notin a[j].classes
                                /\ Truthy(a[i].href) }
            ks == { k \in 1..Len(next_keywords) : leadText(k) # {} }
            cs == { c \in 1..Len(next_classes) : leadClass(c) # {} }
        IN  IF ks # {} THEN \A i \in leadText(Min(ks)) : probe.out = a[i].href
            ELSE IF cs # {} THEN \A i \in leadClass(Min(cs)) : probe.out = a[i].href
            ELSE /\ probe.out \notin { a[i].href : i \in 1..Len(a) } \ {PyNone}
                 /\ probe.out = PyNone
                        <=> ~(/\ Contains(Lower(probe.url), <<"p", "a", "g", "e">>)
                              /\ SearchPageParam(probe.url) # 0)

C10_Witness ==
    /\ probe.op = "extract_next_page"
    /\ probe.out # Pending
    /\ LET a == probe.soup.anchors
       IN  /\ Len(a) = 2
           /\ a[1].text = "next_page" /\ a[1].href = PyNone
           /\ a[2].text = "next_page" /\ a[2].href = <<"/", "1">>
           /\ a[1].classes = {"next"} /\ a[2].classes = {}
           /\ probe.url = UP
           /\ probe.out = <<"H", "/", "p", "a", "g", "e", "=", "1", "0">>

----------------------------------------------------------------------------
(* extract_next_page called alone on a page without anchors, for URLs made  *)
(* of query parameters and other text.                                      *)

UrlParts ==
    {<<"p", "a", "g", "e", "=", "1">>,
     <<"p", "a", "g", "e", "=", "1", "9">>,
     <<"P", "a", "g", "e", "=", "0", "9">>,
     <<"p", "=", "1">>,
     <<"p", "a", "g", "e">>,
     <<"x">>,
     <<"&">>}

PatternUrls == { <<"H", "/">> \o Concat(q) : q \in SeqsOver(UrlParts, MaxUrlParts) }

InitUrlPattern ==
    /\ Idle
    /\ probe \in [op : {"extract_next_page"},
                  soup : [h1 : {PyNone}, title : {PyNone}, sel : {<<>>},
                          anchors : {<<>>}],
                  url : PatternUrls, out : {Pending}]

SpecUrlPattern == InitUrlPattern /\ [][ApplyNextPage]_vars

(* C11: when no anchor matches and the URL contains "page" and a page=<n>   *)
(* or p=<n> parameter, extract_next_page returns the URL with that one      *)
(* parameter's value replaced by n+1 and every other character unchanged.   *)
C11_IncrementsOneParameter ==
    (/\ probe.op = "extract_next_page"
     /\ probe.out # Pending
     /\ probe.soup.anchors = <<>>
     /\ Contains(Lower(probe.url), <<"p", "a", "g", "e">>)
     /\ SearchPageParam(probe.url) # 0) =>
        LET u == probe.url
            i == SearchPageParam(u)
            n == KeyLenAt(SubSeq(u, i, Len(u)))
            valueEnd == SkipWhile(u, i + n + 1, Digits) - 1
            value == SubSeq(u, i + n + 1, valueEnd)
        IN  probe.out = SubSeq(u, 1, i + n) \o DecStr(DecVal(value) + 1)
                        \o SubSeq(u, valueEnd + 1, Len(u))

----------------------------------------------------------------------------
(* extract_main_content called alone.  Each selector finds nothing, or an   *)
(* element at, below or above the threshold whose returned text is as long  *)
(* as the element's text, shorter (descendants were removed), or empty.     *)

ProbeElements ==
    {NoElement,
     Element(MinContentLen - 1, <<"A">>),
     Element(MinContentLen, <<"B">>),
     Element(MinContentLen + 1, <<"C">>),
     Cleaned(MinContentLen + 1, <<"D">>, MinContentLen - 1),
     Cleaned(MinContentLen + 50, <<>>, 0)}

InitContent ==
    /\ Idle
    /\ probe \in [op : {"extract_main_content"},
                  soup : [h1 : {PyNone}, title : {PyNone},
                          sel : [1..NumSelectors -> ProbeElements],
                          anchors : {<<>>}],
                  url : {PyNone}, out : {Pending}]

ApplyContent ==
    /\ probe.op = "extract_main_content"
    /\ probe.out = Pending
    /\ probe' = [probe EXCEPT !.out = extract_main_content(probe.soup)]
    /\ UNCHANGED walk

SpecContent == InitContent /\ [][ApplyContent]_vars

(* C12: a text that extract_main_content returns has at least 100           *)
(* characters, and it returns not-found when no selector's first matching   *)
(* element has at least 100 characters of text.                             *)
C12_ResultAtLeast100 ==
    (probe.op = "extract_main_content" /\ probe.out # Pending) =>
        LET sel == probe.soup.sel
        IN  /\ probe.out # PyNone => returned_length(probe.soup) >= MinContentLen
            /\ (\A i \in 1..Len(sel) : ~(sel[i].found /\ sel[i].rawLen >= MinContentLen))
                   => probe.out = PyNone

(* C12 as amended: a text is returned only for an element whose own text,   *)
(* before the removal of script, style, ins and iframe descendants, has     *)
(* more than 100 characters; it is the text of the first such element in    *)
(* selector order and may itself be shorter than 100 characters or empty.   *)
(* Not-found is returned exactly when no selector's first matching element  *)
(* has more than 100 characters.                                            *)
C12_RootOver100 ==
    (probe.op = "extract_main_content" /\ probe.out # Pending) =>
        LET sel == probe.soup.sel
            over == { i \in 1..Len(sel) : sel[i].found /\ sel[i].rawLen > MinContentLen }
        IN  /\ probe.out = PyNone <=> over = {}
            /\ over # {} =>
                   \E i \in over : /\ \A j \in over : i <= j
                                   /\ probe.out = sel[i].text
                                   /\ returned_length(probe.soup) = sel[i].textLen

C12_Witness ==
    /\ probe.op = "extract_main_content"
    /\ probe.out = <<"D">>
    /\ probe.soup.sel[1] = Element(MinContentLen, <<"B">>)
    /\ returned_length(probe.soup) < MinContentLen

----------------------------------------------------------------------------
(* clean_chapter_title called alone, and then again on its own result.      *)

CleanChars == {"(", ")", "-", " ", "d", "1", "y", "a"}

InitClean ==
    /\ Idle
    /\ probe \in [op : {"clean_chapter_title"},
                  title : StringsOver(CleanChars, MaxRawLen),
                  once : {Pending}, twice : {Pending}]

ApplyClean ==
    /\ probe.op = "clean_chapter_title"
    /\ probe.once = Pending
    /\ probe' = [probe EXCEPT !.once = clean_chapter_title(probe.title)]
    /\ UNCHANGED walk

ApplyCleanAgain ==
    /\ probe.op = "clean_chapter_title"
    /\ probe.once # Pending
    /\ probe.twice = Pending
    /\ probe' = [probe EXCEPT !.twice = clean_chapter_title(probe.once)]
    /\ UNCHANGED walk

NextClean == ApplyClean \/ ApplyCleanAgain

SpecClean == InitClean /\ [][NextClean]_vars

(* C13: cleaning a cleaned title returns it unchanged.                      *)
C13_CleanIdempotent ==
    (probe.op = "clean_chapter_title" /\ probe.twice # Pending) =>
        probe.twice = probe.once

----------------------------------------------------------------------------
(* C14: the timeout given on the command line is the timeout of every page  *)
(* fetch of the walk.                                                       *)
C14_TimeoutArgumentApplied ==
    last.kind # "none" => last.timeout = timeout

----------------------------------------------------------------------------
IsPrefix(s, t) == Len(s) <= Len(t) /\ SubSeq(t, 1, Len(s)) = s

(* C15: download_novel empties the file at its start, and from then on      *)
(* every step leaves the file's content as a prefix of the new content.     *)
C15_AppendOnly ==
    [][/\ (pc = "download_novel" /\ pc' = "loop") => file' = <<>>
       /\ pc # "download_novel" => IsPrefix(file, file')]_vars

C15_Witness ==
    /\ pc = "returned"
    /\ Len(written) = 3
    /\ file = Rendered(Blocks(written))
    /\ start_url = UP

----------------------------------------------------------------------------
(* The program keeps running: a step of main that can be taken is taken.    *)
(* The interrupt is the user's, and need not happen.                        *)

ProgramStep ==
    \/ Truncate
    \/ TruncateFails
    \/ Revisit
    \/ EnterPage
    \/ FetchPage
    \/ FinalSave
    \/ FinalSaveFails
    \/ Finish

SpecLive == Init /\ [][Next]_vars /\ WF_vars(ProgramStep)

(* C16: however download_novel ends (it returns, a KeyboardInterrupt, any   *)
(* other exception), main then reaches the elapsed-time report.             *)
C16_AlwaysReportsElapsed ==
    (pc \in {"returned", "interrupted", "error"})
        ~> (pc = "exited" /\ log[Len(log)].msg = "elapsed")

C16_Witness ==
    /\ pc = "exited"
    /\ Logged("error")
    /\ fetched # <<>>
    /\ log[Len(log)].msg = "elapsed"

----------------------------------------------------------------------------
(* C17: visited_urls only grows, a URL is in it before its request is sent, *)
(* and so every URL whose request has been sent is in visited_urls.         *)
C17_VisitedBeforeFetch ==
    [][/\ visited_urls \subseteq visited_urls'
       /\ Len(fetched') > Len(fetched)
             => fetched'[Len(fetched')] \in visited_urls
       /\ \A i \in 1..Len(fetched') : fetched'[i] \in visited_urls']_vars

C17_Witness ==
    /\ pc = "fetch"
    /\ Len(fetched) = 2
    /\ current_url \in visited_urls
    /\ Cardinality(visited_urls) = 3

----------------------------------------------------------------------------
(* C18: on a site of finitely many pages whose links stay inside the site,  *)
(* the walk ends after requesting each URL at most once: no URL is          *)
(* requested twice, and a request for a URL that is not a page of the site  *)
(* is the last one, so at most one such request is ever sent.               *)
OffSite(q) == { i \in 1..Len(q) : q[i] \notin SiteUrls }

C18_FiniteSiteEndsWalk ==
    /\ NoDuplicates(fetched)
    /\ Cardinality(OffSite(fetched)) <= 1

----------------------------------------------------------------------------
(* C19: when download_novel has returned, every fragment that process_page  *)
(* appended is in the file: the bodies of the blocks written, in order, are *)
(* the contents of the pages, in order, and the file is those blocks,       *)
(* whatever the titles of the pages were.                                   *)
Fragments(ps) == Concat([i \in 1..Len(ps) |-> ps[i].content])
Bodies(w) == Concat([i \in 1..Len(w) |-> w[i].body])

C19_NoFragmentLost ==
    pc = "returned" =>
        /\ Bodies(written) = Fragments(pages)
        /\ file = Rendered(Blocks(written))

(* C20: when download_novel has returned, chapter_count, the number of the  *)
(* completion message, is the number of blocks written to the file.         *)
C20_CountIsBlocksWritten ==
    pc = "returned" =>
        /\ chapter_count = Len(written)
        /\ log[Len(log)] = [msg |-> "done", arg |-> <<Len(written)>>]

====
